---- MODULE Spec2Model ----
(***************************************************************************)
(* Structured-log emission fabric of warehouse-service: the slog handlers  *)
(* of package observability (syslog, Loki, OTLP, each embedding a stdout   *)
(* JSON handler) and the priority chain of setupLogging in package main.   *)
(***************************************************************************)
EXTENDS Integers, Sequences, FiniteSets, TLC

\* ---------------------------------------------------------------- bounds
MaxCallers == 2
MaxEmits == 2
MaxDerived == 1
MaxRequests == 2

\* ------------------------------------------------------- program constants
\* log/slog levels as used by the handlers' switch statements
LevelDebug == -4
LevelInfo == 0
LevelWarn == 4
LevelError == 8

\* log/syslog severities selected by writer.Debug / Info / Warning / Err
LOG_DEBUG == 7
LOG_INFO == 6
LOG_WARNING == 4
LOG_ERR == 3

\* severity field of a record that has no syslog send and no OTLP payload
NoSev == 0 - 1

\* Level values a caller of the handler API may pass: the four named levels,
\* one between two of them and one above all of them.
Levels == {LevelDebug, LevelInfo, 2, LevelWarn, LevelError, 12}

\* Levels of the slog.Debug / Info / Warn / Error calls the service makes.
ProgramLevels == {LevelDebug, LevelInfo, LevelWarn, LevelError}

\* Levels a handler may be constructed with (the Level field of its config).
ConfigLevels == {LevelDebug, LevelInfo, LevelWarn}

Callers == 1..MaxCallers

Kinds == {"console", "file", "syslog", "loki", "otlp"}
PushKinds == {"loki", "otlp"}

VARIABLES
    cfg,            \* config.Config: which candidate settings are non-empty
    setupPc,        \* position of main / setupLogging
    setupRet,       \* value returned by setupLogging: "none" | "nil" | "err"
    attempts,       \* the Setup* calls made so far, in call order
    defaultLogger,  \* handler behind slog.Default()
    records,        \* one entry per record passed to a Handle method
    filtered,       \* levels of the log calls dropped by the Enabled check
    stdoutOk,       \* the process's stdout/stderr still accepts writes
    callers,        \* request goroutines: index of the record whose syslog
                    \* send the goroutine is waiting in, 0 when not in Handle
    handlers,       \* handlers returned by WithAttrs / WithGroup, in call order
    sink,           \* the writer behind the embedded JSON handler: its lock,
                    \* the pieces written so far, each writer's position
    svc             \* the service behind the logger: main's connect loop,
                    \* the database, the gauge, the last HTTP response

vars == <<cfg, setupPc, setupRet, attempts, defaultLogger, records, filtered,
          stdoutOk, callers, handlers, sink, svc>>

\* ------------------------------------------------------------ constructors
\* the handler slog starts with: text lines through package log, level Info
\* Every handler value has the same fields:
\*   pre, group  attributes and open group held by the embedded slog handler
\*   labels      LokiHandler.labels, a set of [key, val] with distinct keys
\*   writer      state of SyslogHandler.writer's connection
\*   mu          identity of the embedded slog handler's write lock
ConsoleHandler ==
    [kind |-> "console", level |-> LevelInfo, urlOk |-> TRUE,
     pre |-> {}, group |-> <<>>, labels |-> {}, writer |-> "none", mu |-> 0]

NewSyslogHandler(level) ==
    [kind |-> "syslog", level |-> level, urlOk |-> TRUE,
     pre |-> {}, group |-> <<>>, labels |-> {}, writer |-> "open", mu |-> 0]

\* the label set SetupDirectLokiLogging passes in LokiConfig.Labels
ConfigLabels ==
    {[key |-> "service", val |-> "warehouse"], [key |-> "job", val |-> "go-direct"],
     [key |-> "source", val |-> "application"]}

NewLokiHandler(level, urlOk) ==
    [kind |-> "loki", level |-> level, urlOk |-> urlOk,
     pre |-> {}, group |-> <<>>, labels |-> ConfigLabels, writer |-> "none", mu |-> 0]

NewOTLPHandler(level, urlOk) ==
    [kind |-> "otlp", level |-> level, urlOk |-> urlOk,
     pre |-> {}, group |-> <<>>, labels |-> {}, writer |-> "none", mu |-> 0]

NewFileHandler ==
    [kind |-> "file", level |-> LevelInfo, urlOk |-> TRUE,
     pre |-> {}, group |-> <<>>, labels |-> {}, writer |-> "none", mu |-> 0]

\* ---------------------------------------------------------------- service
attemptThreshold == 5

StatusOK == 200
StatusInternalServerError == 500
StatusServiceUnavailable == 503

NoExit == 0 - 1

\* main before its connect loop, no request handled
\*   pc       "connect" (in the loop) | "serving" (router.Run) | "exited"
\*   attempt  the loop variable; slept: the backoff sleeps made, in seconds
\*   conn     the package variable conn: "nil" | "open"
\*   exit     status given to os.Exit
\*   dbUp     the database accepts connections and answers
\*   gauge    value of the WarehouseActive gauge
\*   created  CreateWarehouse requests that succeeded
\*   reqs     requests handled; resps: the responses written, in order, each
\*            with the result of its Ping and the database's state then
IdleSvc ==
    [pc |-> "connect", attempt |-> 1, conn |-> "nil", slept |-> <<>>,
     exit |-> NoExit, dbUp |-> TRUE, gauge |-> 0, created |-> 0, reqs |-> 0,
     resps |-> <<>>]

\* nothing written, no lock held, no writer at work
\*   mu   the write locks of embedded JSON handlers that are held
\*   out  the pieces the writer has received, in order
\*   n    lines begun so far
\*   w    per goroutine: where it is in the embedded handler's Handle, the
\*        line it writes, the handler it writes through, the lock it holds
IdleWriter == [pc |-> "idle", id |-> 0, hid |-> 0, mu |-> 0]

IdleSink == [mu |-> {}, out |-> <<>>, n |-> 0, w |-> [c \in Callers |-> IdleWriter]]

\* -------------------------------------------------------------- attributes
\* An attribute is [key, kind, val]; kind "chan" stands for a value that
\* json.Marshal rejects (a channel, a func).
OrderId == [key |-> "order_id", kind |-> "int", val |-> "42"]
ChanAttr == [key |-> "ch", kind |-> "chan", val |-> "chan"]
ServiceAttr == [key |-> "service", kind |-> "string", val |-> "warehouse"]

\* json.Marshal of a map holding the attributes' values succeeds
Encodable(own) == \A a \in own : a.kind # "chan"

\* An output line or payload is the set of [grp, key, val] it carries.
\* slog's JSON handler: the attributes it was given by WithAttrs, then the
\* record's own under the open group; a value it cannot encode is written
\* as an "!ERROR:..." string.
FallbackLine(h, own) ==
    h.pre \cup {[grp |-> h.group, key |-> a.key,
                 val |-> IF a.kind = "chan" THEN "!ERROR" ELSE a.val] : a \in own}

\* a logEntry built without the record.Attrs loop
SyslogLogEntryNoAttrs(own) == {}

\* logEntry of SyslogHandler.Handle: record.Attrs only, keys as given
SyslogLogEntry(own) == {[grp |-> <<>>, key |-> a.key, val |-> a.val] : a \in own}

\* logEntry of sendToLoki: record.Attrs only, keys as given
LokiLogEntry(own) == {[grp |-> <<>>, key |-> a.key, val |-> a.val] : a \in own}

\* attributes of sendToOTLP: record.Attrs only, values through Sprintf("%v")
OTLPAttributes(own) ==
    {[grp |-> <<>>, key |-> a.key,
      val |-> IF a.kind = "chan" THEN "0xc000" ELSE a.val] : a \in own}

\* ------------------------------------------------------- severity mappers
\* a mapper that compares ranges instead of the four exact values
SyslogSeverityByRange(level) ==
    IF level <= LevelDebug THEN LOG_DEBUG
    ELSE IF level < LevelWarn THEN LOG_INFO
    ELSE IF level < LevelError THEN LOG_WARNING
    ELSE LOG_ERR

SyslogSeverity(level) ==
    CASE level = LevelDebug -> LOG_DEBUG
      [] level = LevelInfo -> LOG_INFO
      [] level = LevelWarn -> LOG_WARNING
      [] level = LevelError -> LOG_ERR
      [] OTHER -> LOG_INFO

\* a mapper that compares ranges instead of the four exact values
slogLevelToOTLPByRange(level) ==
    IF level <= LevelDebug THEN 5
    ELSE IF level < LevelWarn THEN 9
    ELSE IF level < LevelError THEN 13
    ELSE 17

slogLevelToOTLP(level) ==
    CASE level = LevelDebug -> 5
      [] level = LevelInfo -> 9
      [] level = LevelWarn -> 13
      [] level = LevelError -> 17
      [] OTHER -> 9

\* ----------------------------------------------------------------- Enabled
\* a filter that also drops records exactly at the handler's level
EnabledStrict(h, level) == level > h.level

Enabled(h, level) == level >= h.level

\* ------------------------------------------------------------------ Handle
\* Each Handle operator yields what the call leaves behind for one record:
\*   baseline  "written" | "failed" | "none"   the embedded handler's write
\*   remote    state of the remote leg
\*   sev       severity chosen for the remote leg
\*   ret       "nil" | "err", or "pending" while the caller is still inside
\*             Handle waiting for the transport
\* enc: every attribute value of the record can be encoded by json.Marshal
\* bOk: the write of the embedded handler succeeds

\* slog's own handlers (the initial one, and the JSON handler over stdout+file)
BaselineHandle(h, level, enc, bOk) ==
    [baseline |-> IF bOk THEN "written" ELSE "failed",
     remote |-> "none", sev |-> NoSev,
     ret |-> IF bOk THEN "nil" ELSE "err"]

\* a Handle that goes on to the syslog send when the embedded handler failed
SyslogHandleIgnoreFallback(h, level, enc, bOk) ==
    IF ~enc
    THEN [baseline |-> IF bOk THEN "written" ELSE "failed",
          remote |-> "none", sev |-> NoSev, ret |-> "err"]
    ELSE [baseline |-> IF bOk THEN "written" ELSE "failed", remote |-> "sending",
          sev |-> SyslogSeverity(level), ret |-> "pending"]

SyslogHandle(h, level, enc, bOk) ==
    IF ~bOk
    THEN [baseline |-> "failed", remote |-> "none", sev |-> NoSev, ret |-> "err"]
    ELSE IF ~enc
    THEN [baseline |-> "written", remote |-> "none", sev |-> NoSev, ret |-> "err"]
    ELSE [baseline |-> "written", remote |-> "sending",
          sev |-> SyslogSeverity(level), ret |-> "pending"]

\* a Handle that pushes without writing to the embedded handler
LokiHandleSkipFallback(h, level, enc, bOk) ==
    [baseline |-> "none", remote |-> "spawned", sev |-> NoSev, ret |-> "nil"]

\* a Handle that starts no goroutine while another dispatch is under way
LokiHandleLimited(h, level, enc, bOk) ==
    IF ~bOk
    THEN [baseline |-> "failed", remote |-> "none", sev |-> NoSev, ret |-> "err"]
    ELSE IF \E j \in DOMAIN records : records[j].remote \in {"spawned", "inflight"}
    THEN [baseline |-> "written", remote |-> "none", sev |-> NoSev, ret |-> "nil"]
    ELSE [baseline |-> "written", remote |-> "spawned", sev |-> NoSev, ret |-> "nil"]

LokiHandle(h, level, enc, bOk) ==
    IF ~bOk
    THEN [baseline |-> "failed", remote |-> "none", sev |-> NoSev, ret |-> "err"]
    ELSE [baseline |-> "written", remote |-> "spawned", sev |-> NoSev, ret |-> "nil"]

\* a Handle that calls sendToOTLP without the go statement
OTLPHandleInline(h, level, enc, bOk) ==
    IF ~bOk
    THEN [baseline |-> "failed", remote |-> "none", sev |-> NoSev, ret |-> "err"]
    ELSE [baseline |-> "written", remote |-> "spawned", sev |-> NoSev, ret |-> "pending"]

OTLPHandle(h, level, enc, bOk) ==
    IF ~bOk
    THEN [baseline |-> "failed", remote |-> "none", sev |-> NoSev, ret |-> "err"]
    ELSE [baseline |-> "written", remote |-> "spawned", sev |-> NoSev, ret |-> "nil"]

Handle(h, level, enc, bOk) ==
    CASE h.kind = "syslog" -> SyslogHandle(h, level, enc, bOk)
      [] h.kind = "loki" -> LokiHandle(h, level, enc, bOk)
      [] h.kind = "otlp" -> OTLPHandle(h, level, enc, bOk)
      [] OTHER -> BaselineHandle(h, level, enc, bOk)

\* a Handle that drops the writer's error
SyslogSendResultSwallow(sOk) ==
    IF sOk THEN [remote |-> "sent", ret |-> "nil"]
    ELSE [remote |-> "senderr", ret |-> "nil"]

\* what writer.Debug/Info/Warning/Err returns to SyslogHandler.Handle
SyslogSendResult(sOk) ==
    IF sOk THEN [remote |-> "sent", ret |-> "nil"]
    ELSE [remote |-> "senderr", ret |-> "err"]

\* src: "main" for a line logged by main during start-up, "req" for one logged
\* by a request goroutine
\* hid: 0 for the default logger's handler, k for handlers[k]
\* own: the record's own attributes; bline: what the baseline line carries;
\* rline: what the remote line or attribute list carries once it is built;
\* streams: the Streams of the Loki payload; time: record.Time, in the order
\* the records were created
Entry(src, hid, t, h, level, own, r) ==
    [src |-> src, hid |-> hid, time |-> t, lvl |-> level, own |-> own,
     enc |-> Encodable(own),
     kind |-> h.kind, hlevel |-> h.level,
     urlOk |-> h.urlOk, baseline |-> r.baseline, remote |-> r.remote,
     sev |-> r.sev, posts |-> 0, ret |-> r.ret,
     bline |-> IF r.baseline = "written" THEN FallbackLine(h, own) ELSE {},
     rline |-> IF r.remote = "sending" THEN SyslogLogEntry(own) ELSE {},
     streams |-> <<>>]

\* ------------------------------------------------------------- slog.Logger
\* Logger.log as called by main before request traffic starts: Enabled, then
\* Handle, which for the syslog handler includes the transport send.
MainLog(recs, h, level, sOk) ==
    IF ~Enabled(h, level) THEN recs
    ELSE LET r == Handle(h, level, TRUE, stdoutOk)
             e == Entry("main", 0, Len(recs) + 1, h, level, {ServiceAttr}, r)
         IN Append(recs, IF r.ret = "pending"
                         THEN [e EXCEPT !.remote = SyslogSendResult(sOk).remote,
                                        !.ret = SyslogSendResult(sOk).ret]
                         ELSE e)

CallerRecords == {i \in DOMAIN records : records[i].src = "req"}

\* handlers[k] is the k-th WithAttrs/WithGroup call: h the handler it
\* returned, parent the handler it was called on, op/attrs/name the call,
\* at the number of records created before it
HandlerOf(hid) == IF hid = 0 THEN defaultLogger ELSE handlers[hid].h

\* Logger.log on a request goroutine, through the handler hid: Enabled, then
\* Handle. levels and attrsets are the values the call's level and
\* attributes are drawn from.
LoggerLogVia(c, hid, levels, attrsets) ==
    /\ setupPc = "done"
    /\ callers[c] = 0
    /\ Cardinality(CallerRecords) < MaxEmits
    /\ \E level \in levels, own \in attrsets :
          LET h == HandlerOf(hid) IN
          IF ~Enabled(h, level)
          THEN /\ filtered' = filtered \cup {level}
               /\ UNCHANGED <<records, callers>>
          ELSE LET r == Handle(h, level, Encodable(own), stdoutOk)
               IN /\ records' = Append(records, Entry("req", hid, Len(records) + 1, h, level, own, r))
                  /\ callers' = [callers EXCEPT ![c] =
                        IF r.ret = "pending" THEN Len(records) + 1 ELSE 0]
                  /\ UNCHANGED filtered
    /\ UNCHANGED <<svc, handlers, sink, cfg, setupPc, setupRet, attempts, defaultLogger, stdoutOk>>

LoggerLog(c, levels, attrsets) == LoggerLogVia(c, 0, levels, attrsets)

\* the service's own calls: slog.Debug/Info/Warn/Error with encodable
\* attributes
Log(c) == LoggerLog(c, ProgramLevels, {{OrderId}})

\* a client of package observability logging through a handler it built
LogAny(c) == LoggerLog(c, Levels, {{OrderId}, {ChanAttr}})

\* the syslog writer call inside SyslogHandler.Handle returns
SyslogSendReturn(c) ==
    /\ callers[c] # 0
    /\ \E sOk \in BOOLEAN :
          LET s == SyslogSendResult(sOk)
              i == callers[c]
          IN records' = [records EXCEPT ![i].remote = s.remote, ![i].ret = s.ret]
    /\ callers' = [callers EXCEPT ![c] = 0]
    /\ UNCHANGED <<svc, handlers, sink, cfg, setupPc, setupRet, attempts, defaultLogger, filtered, stdoutOk>>

\* ------------------------------------------------- WithAttrs / WithGroup
\* attributes given to WithAttrs
RegionAttr == [key |-> "region", kind |-> "string", val |-> "eu"]
RegionUs == [key |-> "region", kind |-> "string", val |-> "us"]
ServiceBilling == [key |-> "service", kind |-> "string", val |-> "billing"]
ShardAttr == [key |-> "shard", kind |-> "int", val |-> "7"]

\* the argument lists WithAttrs is called with: a string and a non-string
\* attribute; a list that overrides a configured label and repeats a key
AttrLists == {<<RegionAttr, ShardAttr>>, <<ServiceBilling, RegionUs, RegionAttr>>}

GroupNames == {"req"}

\* slog's JSON handler WithAttrs: the attributes are kept, qualified by the
\* group open at the time
FallbackWithAttrs(h, attrs) ==
    h.pre \cup {[grp |-> h.group, key |-> attrs[n].key, val |-> attrs[n].val] :
                  n \in DOMAIN attrs}

\* the loop of LokiHandler.WithAttrs over attrs: string-kind attributes are
\* written into the label map in order, a later key replacing an earlier one
RECURSIVE PromoteLabels(_, _)
PromoteLabels(labels, attrs) ==
    IF attrs = <<>> THEN labels
    ELSE LET a == Head(attrs)
         IN PromoteLabels(IF a.kind = "string"
                          THEN {l \in labels : l.key # a.key}
                                   \cup {[key |-> a.key, val |-> a.val]}
                          ELSE labels,
                          Tail(attrs))

\* WithAttrs and WithGroup give back the receiver as the call leaves it
\* (recv) and the handler returned (new)
\* a WithAttrs that builds a JSON handler of its own over stdout instead of
\* deriving it from h.fallback
SyslogWithAttrsOwnFallback(h, attrs) ==
    [recv |-> h,
     new |-> [h EXCEPT !.pre = FallbackWithAttrs(h, attrs), !.mu = h.mu + 1]]

SyslogWithAttrs(h, attrs) ==
    [recv |-> h, new |-> [h EXCEPT !.pre = FallbackWithAttrs(h, attrs)]]

\* a WithAttrs that writes the promoted labels into the receiver's own map
LokiWithAttrsInPlace(h, attrs) ==
    [recv |-> [h EXCEPT !.labels = PromoteLabels(h.labels, attrs)],
     new |-> [h EXCEPT !.labels = PromoteLabels(h.labels, attrs),
                       !.pre = FallbackWithAttrs(h, attrs)]]

LokiWithAttrs(h, attrs) ==
    [recv |-> h,
     new |-> [h EXCEPT !.labels = PromoteLabels(h.labels, attrs),
                       !.pre = FallbackWithAttrs(h, attrs)]]

OTLPWithAttrs(h, attrs) ==
    [recv |-> h, new |-> [h EXCEPT !.pre = FallbackWithAttrs(h, attrs)]]

SyslogWithGroup(h, name) ==
    [recv |-> h, new |-> [h EXCEPT !.group = Append(h.group, name)]]

\* the new LokiHandler shares h.labels
LokiWithGroup(h, name) ==
    [recv |-> h, new |-> [h EXCEPT !.group = Append(h.group, name)]]

OTLPWithGroup(h, name) ==
    [recv |-> h, new |-> [h EXCEPT !.group = Append(h.group, name)]]

HandlerWithAttrs(h, attrs) ==
    CASE h.kind = "syslog" -> SyslogWithAttrs(h, attrs)
      [] h.kind = "loki" -> LokiWithAttrs(h, attrs)
      [] OTHER -> OTLPWithAttrs(h, attrs)

HandlerWithGroup(h, name) ==
    CASE h.kind = "syslog" -> SyslogWithGroup(h, name)
      [] h.kind = "loki" -> LokiWithGroup(h, name)
      [] OTHER -> OTLPWithGroup(h, name)

\* the handlers after a call on handler k left its receiver as recv and
\* returned the handler of entry
Derive(k, recv, entry) ==
    Append([n \in DOMAIN handlers |->
               IF n = k THEN [handlers[n] EXCEPT !.h = recv] ELSE handlers[n]],
           entry)

\* Logger.With(attrs...) on the logger of handler k
WithAttrs(k, attrs) ==
    /\ setupPc = "done"
    /\ k \in 0..Len(handlers)
    /\ Len(handlers) < MaxDerived
    /\ LET res == HandlerWithAttrs(HandlerOf(k), attrs)
       IN /\ handlers' = Derive(k, res.recv,
                 [h |-> res.new, parent |-> k, op |-> "attrs",
                  attrs |-> attrs, name |-> "", at |-> Len(records)])
          /\ defaultLogger' = IF k = 0 THEN res.recv ELSE defaultLogger
    /\ UNCHANGED <<svc, sink, cfg, setupPc, setupRet, attempts, records, filtered,
                   stdoutOk, callers>>

\* Logger.WithGroup(name) on the logger of handler k
WithGroup(k, name) ==
    /\ setupPc = "done"
    /\ k \in 0..Len(handlers)
    /\ Len(handlers) < MaxDerived
    /\ LET res == HandlerWithGroup(HandlerOf(k), name)
       IN /\ handlers' = Derive(k, res.recv,
                 [h |-> res.new, parent |-> k, op |-> "group",
                  attrs |-> <<>>, name |-> name, at |-> Len(records)])
          /\ defaultLogger' = IF k = 0 THEN res.recv ELSE defaultLogger
    /\ UNCHANGED <<svc, sink, cfg, setupPc, setupRet, attempts, records, filtered,
                   stdoutOk, callers>>

\* a call on the logger of handler k: info level, order_id attribute
LogVia(c, k) ==
    /\ k \in 0..Len(handlers)
    /\ LoggerLogVia(c, k, {LevelInfo}, {{OrderId}})

\* ------------------------------------------- the embedded handler's write
\* h.fallback.Handle on goroutine c through handler k, step by step: the
\* JSON handler has formatted the line and takes its write lock
FallbackLock(c, k) ==
    /\ setupPc = "done"
    /\ k \in 0..Len(handlers)
    /\ sink.w[c].pc = "idle"
    /\ sink.n < MaxEmits
    /\ HandlerOf(k).mu \notin sink.mu
    /\ sink' = [sink EXCEPT !.mu = @ \cup {HandlerOf(k).mu},
                            !.n = @ + 1,
                            !.w[c] = [pc |-> "head", id |-> sink.n + 1,
                                      hid |-> k, mu |-> HandlerOf(k).mu]]
    /\ UNCHANGED <<svc, handlers, cfg, setupPc, setupRet, attempts, defaultLogger,
                   records, filtered, stdoutOk, callers>>

\* the writer takes the line in two pieces (a short write, then the rest)
FallbackWriteHead(c) ==
    /\ sink.w[c].pc = "head"
    /\ sink' = [sink EXCEPT !.out = Append(@, [id |-> sink.w[c].id, hid |-> sink.w[c].hid,
                                                     part |-> "head"]),
                            !.w[c].pc = "tail"]
    /\ UNCHANGED <<svc, handlers, cfg, setupPc, setupRet, attempts, defaultLogger,
                   records, filtered, stdoutOk, callers>>

FallbackWriteTail(c) ==
    /\ sink.w[c].pc = "tail"
    /\ sink' = [sink EXCEPT !.out = Append(@, [id |-> sink.w[c].id, hid |-> sink.w[c].hid,
                                                     part |-> "tail"]),
                            !.w[c].pc = "written"]
    /\ UNCHANGED <<svc, handlers, cfg, setupPc, setupRet, attempts, defaultLogger,
                   records, filtered, stdoutOk, callers>>

\* Write has returned: the lock is released and Handle returns
FallbackUnlock(c) ==
    /\ sink.w[c].pc = "written"
    /\ sink' = [sink EXCEPT !.mu = @ \ {sink.w[c].mu}, !.w[c] = IdleWriter]
    /\ UNCHANGED <<svc, handlers, cfg, setupPc, setupRet, attempts, defaultLogger,
                   records, filtered, stdoutOk, callers>>

\* the rest of LokiHandler.Handle / OTLPHandler.Handle on goroutine c once
\* the embedded handler has written the line: its lock is released, the
\* dispatch goroutine is started, Handle returns nil
PushHandleReturn(c) ==
    /\ sink.w[c].pc = "written"
    /\ sink' = [sink EXCEPT !.mu = @ \ {sink.w[c].mu}, !.w[c] = IdleWriter]
    /\ LET h == HandlerOf(sink.w[c].hid)
       IN records' = Append(records,
              Entry("req", sink.w[c].hid, sink.w[c].id, h, LevelInfo, {OrderId},
                    Handle(h, LevelInfo, TRUE, TRUE)))
    /\ UNCHANGED <<svc, handlers, cfg, setupPc, setupRet, attempts, defaultLogger,
                   filtered, stdoutOk, callers>>

\* the pipe behind stdout/stderr is closed by its reader: later writes fail
StdoutCloses ==
    /\ stdoutOk
    /\ stdoutOk' = FALSE
    /\ UNCHANGED <<svc, handlers, sink, cfg, setupPc, setupRet, attempts, defaultLogger, records,
                   filtered, callers>>

\* ------------------------------------------------- background goroutines
\* LokiPayload.Streams as sendToLoki builds it: one stream, the handler's
\* labels, with one values entry [record.Time, line]
LokiPayload(h, e) ==
    <<[stream |-> h.labels, values |-> << <<e.time, LokiLogEntry(e.own)>> >>]>>

\* a sender that lets a record ride on a request already in flight for the
\* same labels instead of making its own
sendToLokiStepBatched(h, e) ==
    IF ~e.enc THEN [e EXCEPT !.remote = "dropped_marshal"]
    ELSE IF ~e.urlOk THEN [e EXCEPT !.remote = "dropped_request"]
    ELSE IF \E j \in DOMAIN records :
               /\ records[j].remote = "inflight"
               /\ records[j].streams # <<>>
               /\ records[j].streams[1].stream = h.labels
    THEN [e EXCEPT !.remote = "inflight", !.rline = LokiLogEntry(e.own)]
    ELSE [e EXCEPT !.remote = "inflight", !.posts = e.posts + 1,
                   !.rline = LokiLogEntry(e.own),
                   !.streams = LokiPayload(h, e)]

\* first half of sendToLoki, up to the moment client.Do has sent the POST
\* h: the handler the goroutine was started on
sendToLokiStep(h, e) ==
    IF ~e.enc THEN [e EXCEPT !.remote = "dropped_marshal"]
    ELSE IF ~e.urlOk THEN [e EXCEPT !.remote = "dropped_request"]
    ELSE [e EXCEPT !.remote = "inflight", !.posts = e.posts + 1,
                   !.rline = LokiLogEntry(e.own),
                   !.streams = LokiPayload(h, e)]

\* a sender that puts the slog level itself into SeverityNumber
sendToOTLPStepRawLevel(h, e) ==
    IF ~e.urlOk THEN [e EXCEPT !.remote = "dropped_request"]
    ELSE [e EXCEPT !.remote = "inflight", !.posts = e.posts + 1,
                   !.sev = e.lvl,
                   !.rline = OTLPAttributes(e.own)]

\* first half of sendToOTLP: attribute values are stringified with %v, so
\* the payload always marshals
sendToOTLPStep(h, e) ==
    IF ~e.urlOk THEN [e EXCEPT !.remote = "dropped_request"]
    ELSE [e EXCEPT !.remote = "inflight", !.posts = e.posts + 1,
                   !.sev = slogLevelToOTLP(e.lvl),
                   !.rline = OTLPAttributes(e.own)]

\* how client.Do ends: a response (any status, err = nil) or an error
\* "response": the endpoint answered, accepting or rejecting with a status
\* "error": refused, unreachable, or no answer within the client's timeout
RemoteOutcomes == {"response", "error"}

\* a sender that starts over when client.Do returns an error
ClientDoResultRetry(e, outcome) ==
    [e EXCEPT !.remote = IF outcome = "response" THEN "answered" ELSE "spawned"]

ClientDoResult(e, outcome) ==
    [e EXCEPT !.remote = IF outcome = "response" THEN "answered" ELSE "failed"]

\* dispatch goroutines that run strictly in the order they were started
sendToLokiInOrder(i) ==
    /\ i \in DOMAIN records
    /\ records[i].kind = "loki"
    /\ records[i].remote = "spawned"
    /\ \A j \in DOMAIN records : j < i => records[j].remote # "spawned"
    /\ records' = [records EXCEPT ![i] = sendToLokiStep(HandlerOf(records[i].hid), records[i])]
    /\ UNCHANGED <<svc, handlers, sink, cfg, setupPc, setupRet, attempts, defaultLogger, filtered, stdoutOk, callers>>

sendToLoki(i) ==
    /\ i \in DOMAIN records
    /\ records[i].kind = "loki"
    /\ records[i].remote = "spawned"
    /\ records' = [records EXCEPT ![i] = sendToLokiStep(HandlerOf(records[i].hid), records[i])]
    /\ UNCHANGED <<svc, handlers, sink, cfg, setupPc, setupRet, attempts, defaultLogger, filtered, stdoutOk, callers>>

sendToOTLP(i) ==
    /\ i \in DOMAIN records
    /\ records[i].kind = "otlp"
    /\ records[i].remote = "spawned"
    /\ records' = [records EXCEPT ![i] = sendToOTLPStep(HandlerOf(records[i].hid), records[i])]
    /\ UNCHANGED <<svc, handlers, sink, cfg, setupPc, setupRet, attempts, defaultLogger, filtered, stdoutOk, callers>>

\* client.Do returns in sendToLoki / sendToOTLP and the goroutine ends
ClientDoReturn(i) ==
    /\ i \in DOMAIN records
    /\ records[i].remote = "inflight"
    /\ \E outcome \in RemoteOutcomes :
          records' = [records EXCEPT ![i] = ClientDoResult(records[i], outcome)]
    /\ UNCHANGED <<svc, handlers, sink, cfg, setupPc, setupRet, attempts, defaultLogger, filtered, stdoutOk, callers>>

\* ------------------------------------------------------- Setup* functions
\* reach: the candidate's target can be reached / opened while it is set up.
\* Each operator is the error result of the function: TRUE for nil.
SetupOTLPLogging(reach) == TRUE

SetupDirectLokiLogging(reach) == TRUE

\* NewSyslogHandler fails when syslog.Dial fails
SetupSyslogLogging(reach) == reach

\* a file setup that goes on to install its handler although the directory
\* or the file could not be opened
SetupAdvancedFileLoggerSwallow(reach) == TRUE

\* os.MkdirAll or os.OpenFile fails
SetupAdvancedFileLogger(reach) == reach

\* a chain that goes on to the next candidate after a success
TryCandidateNoReturn(cand, present, nextPc, h, ok, reach, s1, s2) ==
    IF ~present
    THEN /\ setupPc' = nextPc
         /\ UNCHANGED <<setupRet, attempts, defaultLogger, records>>
    ELSE /\ attempts' = Append(attempts, [cand |-> cand, reach |-> reach, ok |-> ok])
         /\ setupPc' = nextPc
         /\ UNCHANGED setupRet
         /\ IF ok
            THEN /\ defaultLogger' = h
                 /\ records' = MainLog(MainLog(records, h, LevelInfo, s1),
                                       h, LevelInfo, s2)
            ELSE /\ records' = MainLog(records, defaultLogger, LevelWarn, s1)
                 /\ UNCHANGED defaultLogger

\* a chain whose failed Setup* leaves its handler installed, the warning
\* still going through the handler active before
TryCandidateFailedInstall(cand, present, nextPc, h, ok, reach, s1, s2) ==
    IF ~present
    THEN /\ setupPc' = nextPc
         /\ UNCHANGED <<setupRet, attempts, defaultLogger, records>>
    ELSE /\ attempts' = Append(attempts, [cand |-> cand, reach |-> reach, ok |-> ok])
         /\ defaultLogger' = h
         /\ IF ok
            THEN /\ records' = MainLog(MainLog(records, h, LevelInfo, s1),
                                       h, LevelInfo, s2)
                 /\ setupPc' = "done"
                 /\ setupRet' = "nil"
            ELSE /\ records' = MainLog(records, defaultLogger, LevelWarn, s1)
                 /\ setupPc' = nextPc
                 /\ UNCHANGED setupRet

\* a chain whose Setup* functions call slog.SetDefault before they can fail
TryCandidateInstallFirst(cand, present, nextPc, h, ok, reach, s1, s2) ==
    IF ~present
    THEN /\ setupPc' = nextPc
         /\ UNCHANGED <<setupRet, attempts, defaultLogger, records>>
    ELSE /\ attempts' = Append(attempts, [cand |-> cand, reach |-> reach, ok |-> ok])
         /\ defaultLogger' = h
         /\ IF ok
            THEN /\ records' = MainLog(MainLog(records, h, LevelInfo, s1),
                                       h, LevelInfo, s2)
                 /\ setupPc' = "done"
                 /\ setupRet' = "nil"
            ELSE /\ records' = MainLog(records, h, LevelWarn, s1)
                 /\ setupPc' = nextPc
                 /\ UNCHANGED setupRet

\* One candidate of setupLogging. A successful Setup* has called
\* slog.SetDefault(h) and logged its "configured" line through h before it
\* returns; setupLogging then logs "Using ..." and returns nil. A failed one
\* has returned before SetDefault; setupLogging warns and goes on.
TryCandidate(cand, present, nextPc, h, ok, reach, s1, s2) ==
    IF ~present
    THEN /\ setupPc' = nextPc
         /\ UNCHANGED <<setupRet, attempts, defaultLogger, records>>
    ELSE /\ attempts' = Append(attempts, [cand |-> cand, reach |-> reach, ok |-> ok])
         /\ IF ok
            THEN /\ defaultLogger' = h
                 /\ records' = MainLog(MainLog(records, h, LevelInfo, s1),
                                       h, LevelInfo, s2)
                 /\ setupPc' = "done"
                 /\ setupRet' = "nil"
            ELSE /\ records' = MainLog(records, defaultLogger, LevelWarn, s1)
                 /\ setupPc' = nextPc
                 /\ UNCHANGED <<setupRet, defaultLogger>>

\* main: LoadConfig, then "Set Up Logging....." and the call of setupLogging
mainStart ==
    /\ setupPc = "start"
    /\ \E loadOk \in BOOLEAN :
          IF loadOk
          THEN /\ records' = MainLog(records, defaultLogger, LevelInfo, TRUE)
               /\ setupPc' = "otlp"
          ELSE /\ records' = MainLog(records, defaultLogger, LevelError, TRUE)
               /\ setupPc' = "exit"
    /\ UNCHANGED <<svc, handlers, sink, cfg, setupRet, attempts, defaultLogger, filtered, stdoutOk, callers>>

setupLoggingOTLP ==
    /\ setupPc = "otlp"
    /\ \E reach \in BOOLEAN :
          TryCandidate("otlp", cfg.otlp, "loki", NewOTLPHandler(LevelInfo, cfg.urlOk),
                       SetupOTLPLogging(reach), reach, TRUE, TRUE)
    /\ UNCHANGED <<svc, handlers, sink, cfg, filtered, stdoutOk, callers>>

setupLoggingLoki ==
    /\ setupPc = "loki"
    /\ \E reach \in BOOLEAN :
          TryCandidate("loki", cfg.loki, "syslog", NewLokiHandler(LevelInfo, cfg.urlOk),
                       SetupDirectLokiLogging(reach), reach, TRUE, TRUE)
    /\ UNCHANGED <<svc, handlers, sink, cfg, filtered, stdoutOk, callers>>

setupLoggingSyslog ==
    /\ setupPc = "syslog"
    /\ \E reach \in BOOLEAN, s1 \in BOOLEAN, s2 \in BOOLEAN :
          TryCandidate("syslog", cfg.syslog, "file", NewSyslogHandler(LevelInfo),
                       SetupSyslogLogging(reach), reach, s1, s2)
    /\ UNCHANGED <<svc, handlers, sink, cfg, filtered, stdoutOk, callers>>

setupLoggingFile ==
    /\ setupPc = "file"
    /\ \E reach \in BOOLEAN :
          TryCandidate("file", cfg.file, "stdout", NewFileHandler,
                       SetupAdvancedFileLogger(reach), reach, TRUE, TRUE)
    /\ UNCHANGED <<svc, handlers, sink, cfg, filtered, stdoutOk, callers>>

\* Option 5: nothing installed, "Using default stdout logging", return nil
setupLoggingStdout ==
    /\ setupPc = "stdout"
    /\ records' = MainLog(records, defaultLogger, LevelInfo, TRUE)
    /\ setupPc' = "done"
    /\ setupRet' = "nil"
    /\ UNCHANGED <<svc, handlers, sink, cfg, attempts, defaultLogger, filtered, stdoutOk, callers>>

\* main after setupLogging: the database connection loop gives up with
\* os.Exit(1) after logging an error, or router.Run returns and main ends.
\* Neither path, nor Server.Shutdown, calls SyslogHandler.Close.
mainExit ==
    /\ setupPc = "done"
    /\ \E dbOk \in BOOLEAN, sOk \in BOOLEAN :
          records' = IF dbOk THEN records
                     ELSE MainLog(records, defaultLogger, LevelError, sOk)
    /\ setupPc' = "stopped"
    /\ UNCHANGED <<svc, handlers, sink, cfg, setupRet, attempts, defaultLogger,
                   filtered, stdoutOk, callers>>

\* ------------------------------------------------------ main's connect loop
\* x << n
RECURSIVE Shl(_, _)
Shl(x, n) == IF n = 0 THEN x ELSE Shl(2 * x, n - 1)

\* a loop without the attempt == attemptThreshold exit
ConnectLoopStepNoExit(s, ok) ==
    IF s.attempt > attemptThreshold THEN [s EXCEPT !.pc = "serving"]
    ELSE IF ok THEN [s EXCEPT !.conn = "open", !.pc = "serving"]
    ELSE [s EXCEPT !.slept = Append(@, Shl(1, s.attempt - 1)),
                   !.attempt = @ + 1]

\* one turn of 'for attempt <= attemptThreshold': pgx.Connect returned ok or
\* an error; leaving the loop leads to NewServer and router.Run
ConnectLoopStep(s, ok) ==
    IF s.attempt > attemptThreshold THEN [s EXCEPT !.pc = "serving"]
    ELSE IF ok THEN [s EXCEPT !.conn = "open", !.pc = "serving"]
    ELSE IF s.attempt = attemptThreshold
    THEN [s EXCEPT !.pc = "exited", !.exit = 1]
    ELSE [s EXCEPT !.slept = Append(@, Shl(1, s.attempt - 1)),
                   !.attempt = @ + 1]

\* levels of the slog calls of that turn: "Connecting to database" before
\* the first; then "Connected ..." and Run's "Starting ...", or "Failed to
\* connect" followed by "Max connection attempts reached" or "Retrying"
ConnectLogs(s, ok) ==
    (IF s.attempt = 1 THEN <<LevelInfo>> ELSE <<>>)
        \o (IF s.attempt > attemptThreshold THEN <<LevelInfo>>
            ELSE IF ok THEN <<LevelInfo, LevelInfo>>
            ELSE IF s.attempt = attemptThreshold THEN <<LevelError, LevelError>>
            ELSE <<LevelError, LevelInfo>>)

RECURSIVE LogAll(_, _)
LogAll(recs, levels) ==
    IF levels = <<>> THEN recs
    ELSE LogAll(MainLog(recs, defaultLogger, Head(levels), TRUE), Tail(levels))

\* pgx.Connect succeeds exactly when the database accepts connections
Connect ==
    /\ svc.pc = "connect"
    /\ svc' = ConnectLoopStep(svc, svc.dbUp)
    /\ records' = LogAll(records, ConnectLogs(svc, svc.dbUp))
    /\ UNCHANGED <<handlers, sink, cfg, setupPc, setupRet, attempts,
                   defaultLogger, filtered, stdoutOk, callers>>

\* the database goes away or comes back
DatabaseFlips ==
    /\ svc' = [svc EXCEPT !.dbUp = ~@]
    /\ UNCHANGED <<handlers, sink, cfg, setupPc, setupRet, attempts,
                   defaultLogger, records, filtered, stdoutOk, callers>>

\* ------------------------------------------------------------ HTTP handlers
\* GET /healthz: registered on the router itself, no middleware before it
HealthzHandler ==
    /\ svc.pc = "serving"
    /\ svc.reqs < MaxRequests
    /\ svc' = [svc EXCEPT !.reqs = @ + 1,
                          !.resps = Append(@, [path |-> "/healthz", code |-> StatusOK,
                                               status |-> "ok", ping |-> "none",
                                               dbUp |-> svc.dbUp])]
    /\ UNCHANGED <<handlers, sink, cfg, setupPc, setupRet, attempts,
                   defaultLogger, records, filtered, stdoutOk, callers>>

\* h.db.Ping: nil when the connection is open and the database answers
Ping(s) == IF s.conn = "open" /\ s.dbUp THEN "ok" ELSE "err"

\* a readiness check that only looks at whether a connection was made
ReadyzResponseConnOnly(s) ==
    IF s.conn = "open"
    THEN [path |-> "/readyz", code |-> StatusOK, status |-> "ready",
          ping |-> Ping(s), dbUp |-> s.dbUp]
    ELSE [path |-> "/readyz", code |-> StatusServiceUnavailable,
          status |-> "not ready", ping |-> Ping(s), dbUp |-> s.dbUp]

ReadyzResponse(s) ==
    IF Ping(s) # "ok"
    THEN [path |-> "/readyz", code |-> StatusServiceUnavailable,
          status |-> "not ready", ping |-> Ping(s), dbUp |-> s.dbUp]
    ELSE [path |-> "/readyz", code |-> StatusOK, status |-> "ready",
          ping |-> Ping(s), dbUp |-> s.dbUp]

\* GET /readyz
ReadyzHandler ==
    /\ svc.pc = "serving"
    /\ svc.reqs < MaxRequests
    /\ svc' = [svc EXCEPT !.reqs = @ + 1, !.resps = Append(@, ReadyzResponse(svc))]
    /\ UNCHANGED <<handlers, sink, cfg, setupPc, setupRet, attempts,
                   defaultLogger, records, filtered, stdoutOk, callers>>

\* PrometheusMetrics.UpdateInventoryCount: WarehouseActive.Set(count)
UpdateInventoryCount(gauge, count) == count

\* POST /v1/warehouse/create: the insert fails when the database is away or
\* rejects the row (qOk false); a failure is logged and answered with 500, a
\* success calls UpdateInventoryCount(1) and is answered with 200
CreateWarehouse ==
    /\ svc.pc = "serving"
    /\ svc.reqs < MaxRequests
    /\ \E qOk \in BOOLEAN :
          IF svc.conn = "open" /\ svc.dbUp /\ qOk
          THEN /\ svc' = [svc EXCEPT
                            !.reqs = @ + 1,
                            !.created = @ + 1,
                            !.gauge = UpdateInventoryCount(@, 1),
                            !.resps = Append(@, [path |-> "/v1/warehouse/create",
                                      code |-> StatusOK, status |-> "created",
                                      ping |-> "none", dbUp |-> svc.dbUp])]
               /\ UNCHANGED records
          ELSE /\ svc' = [svc EXCEPT
                            !.reqs = @ + 1,
                            !.resps = Append(@, [path |-> "/v1/warehouse/create",
                                      code |-> StatusInternalServerError,
                                      status |-> "error",
                                      ping |-> "none", dbUp |-> svc.dbUp])]
               /\ records' = MainLog(records, defaultLogger, LevelError, TRUE)
    /\ UNCHANGED <<handlers, sink, cfg, setupPc, setupRet, attempts,
                   defaultLogger, filtered, stdoutOk, callers>>

\* -------------------------------------------------------------- log file
\* LogConfig.MaxSizeMB as setupLogging sets it
MaxSizeMB == 100

\* size of one line, in the unit of MaxSizeMB: a third of the limit
LineMB == MaxSizeMB \div 3

\* the file SetupAdvancedFileLogger opened with O_APPEND: every line the
\* file handler wrote, in order
LogFile == SelectSeq(records, LAMBDA e : e.kind = "file" /\ e.baseline = "written")

\* the files the file logger has written to: the one it opened at setup;
\* no code closes it, renames it or opens another
LogFiles == <<LogFile>>

\* ---------------------------------------------------------- specification
Configs ==
    {c \in [otlp : BOOLEAN, loki : BOOLEAN, syslog : BOOLEAN, file : BOOLEAN,
            urlOk : BOOLEAN] : (~c.otlp /\ ~c.loki) => c.urlOk}

Init ==
    /\ cfg \in Configs
    /\ setupPc = "start"
    /\ setupRet = "none"
    /\ attempts = <<>>
    /\ defaultLogger = ConsoleHandler
    /\ records = <<>>
    /\ filtered = {}
    /\ stdoutOk = TRUE
    /\ callers = [c \in Callers |-> 0]
    /\ handlers = <<>>
    /\ sink = IdleSink
    /\ svc = IdleSvc

Next ==
    \/ mainStart
    \/ setupLoggingOTLP
    \/ setupLoggingLoki
    \/ setupLoggingSyslog
    \/ setupLoggingFile
    \/ setupLoggingStdout
    \/ \E c \in Callers : Log(c)
    \/ \E c \in Callers : SyslogSendReturn(c)
    \/ \E i \in DOMAIN records : sendToLoki(i)
    \/ \E i \in DOMAIN records : sendToOTLP(i)
    \/ \E i \in DOMAIN records : ClientDoReturn(i)

Spec == Init /\ [][Next]_vars

\* main alone, from process start to process end, without request traffic
NextMain ==
    \/ mainStart
    \/ setupLoggingOTLP
    \/ setupLoggingLoki
    \/ setupLoggingSyslog
    \/ setupLoggingFile
    \/ setupLoggingStdout
    \/ mainExit

SpecMain == Init /\ [][NextMain]_vars

\* ----------------------------------------------------------------------
\* The service behind the logger: main's database connect loop, then the
\* HTTP handlers, with the database going away and coming back.
\* ----------------------------------------------------------------------
InitSvc ==
    /\ cfg = [otlp |-> FALSE, loki |-> FALSE, syslog |-> FALSE, file |-> FALSE,
              urlOk |-> TRUE]
    /\ setupPc = "done"
    /\ setupRet = "nil"
    /\ attempts = <<>>
    /\ defaultLogger = ConsoleHandler
    /\ records = <<>>
    /\ filtered = {}
    /\ stdoutOk = TRUE
    /\ callers = [c \in Callers |-> 0]
    /\ handlers = <<>>
    /\ sink = IdleSink
    /\ svc \in {[IdleSvc EXCEPT !.dbUp = u] : u \in BOOLEAN}

NextSvc ==
    \/ Connect
    \/ DatabaseFlips
    \/ HealthzHandler
    \/ ReadyzHandler
    \/ CreateWarehouse

SpecSvc == InitSvc /\ [][NextSvc]_vars

\* pgx.Connect returns and main runs on: the loop takes its next turn
SpecSvcLive == SpecSvc /\ WF_vars(Connect)

\* The handlers as a library: one handler of any variant, built with any
\* level, installed as the default; clients log through it.
Handlers ==
    {NewSyslogHandler(l) : l \in ConfigLevels}
    \cup {NewLokiHandler(l, u) : l \in ConfigLevels, u \in BOOLEAN}
    \cup {NewOTLPHandler(l, u) : l \in ConfigLevels, u \in BOOLEAN}

InitLib ==
    /\ cfg = [otlp |-> FALSE, loki |-> FALSE, syslog |-> FALSE, file |-> FALSE,
              urlOk |-> TRUE]
    /\ setupPc = "done"
    /\ setupRet = "nil"
    /\ attempts = <<>>
    /\ defaultLogger \in Handlers
    /\ records = <<>>
    /\ filtered = {}
    /\ stdoutOk = TRUE
    /\ callers = [c \in Callers |-> 0]
    /\ handlers = <<>>
    /\ sink = IdleSink
    /\ svc = IdleSvc

NextLib ==
    \/ \E c \in Callers : LogAny(c)
    \/ \E c \in Callers : SyslogSendReturn(c)
    \/ \E i \in DOMAIN records : sendToLoki(i)
    \/ \E i \in DOMAIN records : sendToOTLP(i)
    \/ \E i \in DOMAIN records : ClientDoReturn(i)
    \/ StdoutCloses

SpecLib == InitLib /\ [][NextLib]_vars

\* ----------------------------------------------------------------------
\* The handlers under WithAttrs and WithGroup: one syslog, Loki or OTLP
\* handler is installed; loggers are derived from it and used.
\* ----------------------------------------------------------------------
AttrRoots ==
    {NewSyslogHandler(LevelInfo), NewLokiHandler(LevelInfo, TRUE),
     NewOTLPHandler(LevelInfo, TRUE)}

InitAttrs ==
    /\ cfg = [otlp |-> FALSE, loki |-> FALSE, syslog |-> FALSE, file |-> FALSE,
              urlOk |-> TRUE]
    /\ setupPc = "done"
    /\ setupRet = "nil"
    /\ attempts = <<>>
    /\ defaultLogger \in AttrRoots
    /\ records = <<>>
    /\ filtered = {}
    /\ stdoutOk = TRUE
    /\ callers = [c \in Callers |-> 0]
    /\ handlers = <<>>
    /\ sink = IdleSink
    /\ svc = IdleSvc

NextAttrs ==
    \/ \E k \in 0..MaxDerived, attrs \in AttrLists : WithAttrs(k, attrs)
    \/ \E k \in 0..MaxDerived, name \in GroupNames : WithGroup(k, name)
    \/ \E c \in Callers, k \in 0..MaxDerived : LogVia(c, k)
    \/ \E c \in Callers : SyslogSendReturn(c)
    \/ \E i \in DOMAIN records : sendToLoki(i)
    \/ \E i \in DOMAIN records : sendToOTLP(i)

SpecAttrs == InitAttrs /\ [][NextAttrs]_vars

\* ----------------------------------------------------------------------
\* The write of the embedded JSON handler, step by step, with goroutines
\* writing through the installed handler and handlers derived from it.
\* ----------------------------------------------------------------------
NextWrite ==
    \/ \E k \in 0..MaxDerived, attrs \in AttrLists : WithAttrs(k, attrs)
    \/ \E k \in 0..MaxDerived, name \in GroupNames : WithGroup(k, name)
    \/ \E c \in Callers, k \in 0..MaxDerived : FallbackLock(c, k)
    \/ \E c \in Callers : FallbackWriteHead(c)
    \/ \E c \in Callers : FallbackWriteTail(c)
    \/ \E c \in Callers : FallbackUnlock(c)

SpecWrite == InitAttrs /\ [][NextWrite]_vars

\* ----------------------------------------------------------------------
\* A push handler with its baseline write taken step by step: goroutines
\* emit through the installed Loki or OTLP handler, each record's dispatch
\* goroutine runs on its own.
\* ----------------------------------------------------------------------
PushRoots ==
    {NewLokiHandler(LevelInfo, u) : u \in BOOLEAN}
        \cup {NewOTLPHandler(LevelInfo, u) : u \in BOOLEAN}

InitOrder ==
    /\ cfg = [otlp |-> FALSE, loki |-> FALSE, syslog |-> FALSE, file |-> FALSE,
              urlOk |-> TRUE]
    /\ setupPc = "done"
    /\ setupRet = "nil"
    /\ attempts = <<>>
    /\ defaultLogger \in PushRoots
    /\ records = <<>>
    /\ filtered = {}
    /\ stdoutOk = TRUE
    /\ callers = [c \in Callers |-> 0]
    /\ handlers = <<>>
    /\ sink = IdleSink
    /\ svc = IdleSvc

NextOrder ==
    \/ \E c \in Callers : FallbackLock(c, 0)
    \/ \E c \in Callers : FallbackWriteHead(c)
    \/ \E c \in Callers : FallbackWriteTail(c)
    \/ \E c \in Callers : PushHandleReturn(c)
    \/ \E i \in DOMAIN records : sendToLoki(i)
    \/ \E i \in DOMAIN records : sendToOTLP(i)
    \/ \E i \in DOMAIN records : ClientDoReturn(i)

SpecOrder == InitOrder /\ [][NextOrder]_vars

TypeOK ==
    /\ cfg \in Configs
    /\ setupPc \in {"start", "otlp", "loki", "syslog", "file", "stdout", "done", "exit",
                   "stopped"}
    /\ setupRet \in {"none", "nil", "err"}
    /\ defaultLogger.kind \in Kinds
    /\ \A i \in DOMAIN records : records[i].posts \in 0..1

\* ==================================================================
\* Properties
\* ==================================================================
RecIds == DOMAIN records

\* C1 Durability: every record passed to Handle of the syslog, Loki or OTLP
\* handler has been handed to the embedded stdout handler, and a record whose
\* remote leg was started at all, whatever the remote end did with it, has
\* been written by the embedded handler.
C1_Durability ==
    \A i \in RecIds :
        records[i].kind \in {"syslog", "loki", "otlp"} =>
            /\ records[i].baseline \in {"written", "failed"}
            /\ records[i].remote # "none" => records[i].baseline = "written"

\* a pushed record whose POST ended in an error is on stdout
C1_Witness ==
    \E i \in RecIds :
        /\ records[i].kind \in PushKinds
        /\ records[i].remote = "failed"
        /\ records[i].baseline = "written"

Cands == <<"otlp", "loki", "syslog", "file">>

Rank(cand) == CHOOSE k \in DOMAIN Cands : Cands[k] = cand

Present(cand) ==
    CASE cand = "otlp" -> cfg.otlp
      [] cand = "loki" -> cfg.loki
      [] cand = "syslog" -> cfg.syslog
      [] cand = "file" -> cfg.file

NoSuccess == \A i \in DOMAIN attempts : ~attempts[i].ok

\* C2 Priority chain: the Setup* calls are made in the order OTLP, Loki,
\* syslog, file, only for configured candidates, none is made after one has
\* succeeded, no configured candidate of higher priority is passed over, and
\* the handler of the successful call is the installed one.
C2_PriorityChain ==
    /\ \A i, j \in DOMAIN attempts :
          i < j => /\ Rank(attempts[i].cand) < Rank(attempts[j].cand)
                   /\ ~attempts[i].ok
    /\ \A i \in DOMAIN attempts :
          /\ Present(attempts[i].cand)
          /\ attempts[i].ok => defaultLogger.kind = attempts[i].cand
          /\ \A k \in 1..(Rank(attempts[i].cand) - 1) :
                Present(Cands[k]) => \E j \in 1..(i - 1) : attempts[j].cand = Cands[k]
    /\ (setupPc = "done" /\ NoSuccess) =>
          \A k \in DOMAIN Cands :
              Present(Cands[k]) => \E j \in DOMAIN attempts : attempts[j].cand = Cands[k]

\* syslog failed, file succeeded and is installed
C2_Witness ==
    /\ setupPc = "done"
    /\ Len(attempts) = 2
    /\ ~attempts[1].ok
    /\ attempts[2].ok
    /\ defaultLogger.kind = "file"

SetupNext ==
    \/ mainStart
    \/ setupLoggingOTLP
    \/ setupLoggingLoki
    \/ setupLoggingSyslog
    \/ setupLoggingFile
    \/ setupLoggingStdout

PcRank(pc) ==
    CASE pc = "start" -> 0
      [] pc = "otlp" -> 1
      [] pc = "loki" -> 2
      [] pc = "syslog" -> 3
      [] pc = "file" -> 4
      [] pc = "stdout" -> 5
      [] OTHER -> 6

\* C3 Terminal fallback: setupLogging always can take its next step and
\* every step moves it forward, so it terminates; it returns nil; when no
\* candidate was configured or every configured one failed the default
\* logger is still the initial console logger; and every record a request
\* logs after setup at level Info or above is written by the baseline.
C3_TerminalFallback ==
    /\ [](setupPc \notin {"done", "exit"} => ENABLED SetupNext)
    /\ [][setupPc' # setupPc => PcRank(setupPc') > PcRank(setupPc)]_vars
    /\ [](setupPc = "done" => setupRet = "nil")
    /\ []((setupPc = "done" /\ NoSuccess) => defaultLogger = ConsoleHandler)
    /\ [](\A i \in RecIds :
             (records[i].src = "req" /\ NoSuccess) =>
                 records[i].kind = "console" /\ records[i].baseline = "written")
    /\ [](\A l \in filtered : l < LevelInfo)

\* syslog and file were both configured and both failed; a request has logged
C3_Witness ==
    /\ setupPc = "done"
    /\ Len(attempts) = 2
    /\ NoSuccess
    /\ \E i \in RecIds : records[i].src = "req" /\ records[i].kind = "console"

\* C4 An OTLP endpoint that is configured but unreachable while it is set up
\* makes the OTLP setup fail, and the OTLP handler is not installed.
C4_UnreachableOTLPFallsThrough ==
    \A i \in DOMAIN attempts :
        (attempts[i].cand = "otlp" /\ ~attempts[i].reach) =>
            ~attempts[i].ok /\ defaultLogger.kind # "otlp"

\* C5 as stated: with every handler variant, no caller is ever inside Handle
\* waiting for the network.
C5_NoCallerWaitsOnNetwork == \A c \in Callers : callers[c] = 0

\* C5 amended: Handle of the Loki and OTLP handlers has returned before the
\* remote leg runs, so only a caller of the syslog handler is ever inside
\* Handle waiting for the transport; the syslog send of a request's record
\* is made by the caller itself.
C5_PushHandleNeverWaits ==
    /\ \A c \in Callers :
          callers[c] # 0 => records[callers[c]].kind = "syslog"
    /\ \A i \in RecIds :
          /\ records[i].kind \in PushKinds => records[i].ret # "pending"
          /\ records[i].remote = "sending" =>
                /\ records[i].kind = "syslog"
                /\ \E c \in Callers : callers[c] = i

\* a request's record is in flight to the push endpoint and no caller waits
C5_Witness ==
    /\ \E i \in RecIds :
          /\ records[i].src = "req"
          /\ records[i].kind \in PushKinds
          /\ records[i].remote = "inflight"
          /\ records[i].ret = "nil"
    /\ \A c \in Callers : callers[c] = 0

PushFailed == {"dropped_marshal", "dropped_request", "failed"}

\* C6 Silent push failure: for the Loki and OTLP handlers Handle's result is
\* nil exactly when the baseline write succeeded, whatever happens to the
\* push; a record is POSTed at most once; and the step in which a push fails
\* changes neither a Handle result nor the number of records logged.
C6_SilentPushFailure ==
    /\ [](\A i \in RecIds :
             records[i].kind \in PushKinds =>
                 /\ records[i].ret = (IF records[i].baseline = "written"
                                      THEN "nil" ELSE "err")
                 /\ records[i].posts <= 1)
    /\ [][\A i \in RecIds :
             (records[i].remote \notin PushFailed /\ records'[i].remote \in PushFailed) =>
                 /\ Len(records') = Len(records)
                 /\ \A j \in RecIds : records'[j].ret = records[j].ret
                 /\ \A j \in RecIds : records'[j].posts = records[j].posts]_vars

\* one record was dropped before its POST, another one's POST failed
C6_Witness ==
    /\ \E i \in RecIds :
          /\ records[i].kind \in PushKinds
          /\ records[i].remote = "failed"
          /\ records[i].posts = 1
          /\ records[i].ret = "nil"
    /\ \E i \in RecIds :
          /\ records[i].remote \in {"dropped_marshal", "dropped_request"}
          /\ records[i].posts = 0
          /\ records[i].ret = "nil"

\* C7 Syslog send failure: a failed transport send makes Handle return an
\* error, and the record is on the baseline at every moment from the start
\* of the send on.
C7_SyslogSendError ==
    \A i \in RecIds :
        records[i].kind = "syslog" =>
            /\ records[i].remote = "senderr" => records[i].ret = "err"
            /\ records[i].remote \in {"sending", "sent", "senderr"} =>
                  records[i].baseline = "written"

C7_Witness ==
    \E i \in RecIds :
        /\ records[i].kind = "syslog"
        /\ records[i].src = "req"
        /\ records[i].remote = "senderr"
        /\ records[i].ret = "err"
        /\ records[i].baseline = "written"

SyslogSent == {"sending", "sent", "senderr"}

\* C8 Syslog severity: a record the syslog handler sends goes out at DEBUG
\* for level debug, INFO for info, WARNING for warn, ERR for error, and INFO
\* for any other level.
C8_SyslogSeverityTotal ==
    \A i \in RecIds :
        (records[i].kind = "syslog" /\ records[i].remote \in SyslogSent) =>
            records[i].sev = (IF records[i].lvl = LevelDebug THEN 7
                              ELSE IF records[i].lvl = LevelWarn THEN 4
                              ELSE IF records[i].lvl = LevelError THEN 3
                              ELSE 6)

\* a debug record and a record above error have both been sent
C8_Witness ==
    /\ \E i \in RecIds :
          /\ records[i].kind = "syslog"
          /\ records[i].remote \in SyslogSent
          /\ records[i].lvl = LevelDebug
          /\ records[i].sev = 7
    /\ \E i \in RecIds :
          /\ records[i].kind = "syslog"
          /\ records[i].remote \in SyslogSent
          /\ records[i].lvl = 12
          /\ records[i].sev = 6

\* C9 OTLP severity: the severityNumber of a posted record is 5 for debug,
\* 9 for info, 13 for warn, 17 for error, and 9 for any other level.
C9_OTLPSeverityTotal ==
    \A i \in RecIds :
        (records[i].kind = "otlp" /\ records[i].posts > 0) =>
            records[i].sev = (IF records[i].lvl = LevelDebug THEN 5
                              ELSE IF records[i].lvl = LevelWarn THEN 13
                              ELSE IF records[i].lvl = LevelError THEN 17
                              ELSE 9)

\* a debug record and a record between info and warn have both been posted
C9_Witness ==
    /\ \E i \in RecIds :
          /\ records[i].kind = "otlp"
          /\ records[i].posts = 1
          /\ records[i].lvl = LevelDebug
          /\ records[i].sev = 5
    /\ \E i \in RecIds :
          /\ records[i].kind = "otlp"
          /\ records[i].posts = 1
          /\ records[i].lvl = 2
          /\ records[i].sev = 9

\* C10 Level filter: every handler the chain installs has level Info; a log
\* call is dropped exactly when its level is below the handler's level, so
\* every record that reached a Handle is at or above it; and a dropped call
\* leaves the records, and so the baseline and the remote legs, untouched.
C10_LevelFilter ==
    /\ [](defaultLogger.level = LevelInfo)
    /\ [](\A l \in filtered : l < defaultLogger.level)
    /\ [](\A i \in RecIds : records[i].lvl >= records[i].hlevel)
    /\ [][filtered' # filtered => records' = records]_vars

\* a debug call was dropped after an info call was handled by the syslog handler
C10_Witness ==
    /\ LevelDebug \in filtered
    /\ defaultLogger.kind = "syslog"
    /\ \E i \in RecIds : records[i].src = "req" /\ records[i].lvl = LevelInfo

PushStarted == {"spawned", "inflight", "answered", "failed",
                "dropped_marshal", "dropped_request"}

\* C13 OTLP endpoint and syslog address both configured: SetupSyslogLogging
\* is never called and the OTLP handler is the one installed; every info
\* record handled afterwards is written once to the baseline, is never sent
\* to syslog, is POSTed at most once, and, the endpoint forming a valid URL,
\* has been POSTed exactly once with severityNumber 9 as soon as its
\* goroutine has run.
C13_OTLPOverSyslog ==
    (cfg.otlp /\ cfg.syslog) =>
        /\ \A i \in DOMAIN attempts : attempts[i].cand # "syslog"
        /\ setupPc = "done" => defaultLogger.kind = "otlp"
        /\ \A i \in RecIds :
              (records[i].kind = "otlp" /\ records[i].lvl = LevelInfo) =>
                  /\ records[i].baseline = "written"
                  /\ records[i].remote \in PushStarted
                  /\ records[i].posts <= 1
                  /\ (cfg.urlOk /\ records[i].remote # "spawned") =>
                        records[i].posts = 1 /\ records[i].sev = 9
        /\ \A i \in RecIds :
              records[i].remote \notin SyslogSent /\ records[i].kind # "syslog"

\* a request's info record has been POSTed with both candidates configured
C13_Witness ==
    /\ cfg.otlp /\ cfg.syslog
    /\ \E i \in RecIds :
          /\ records[i].src = "req"
          /\ records[i].kind = "otlp"
          /\ records[i].lvl = LevelInfo
          /\ records[i].baseline = "written"
          /\ records[i].posts = 1
          /\ records[i].sev = 9

OnlySyslog == cfg.syslog /\ ~cfg.otlp /\ ~cfg.loki /\ ~cfg.file

\* C14 Only a syslog address configured: SetupSyslogLogging is the one setup
\* call and, when it succeeds, the syslog handler is installed; a request's
\* warn record with order_id=42 is sent to syslog at WARNING with order_id 42
\* in its line; and no record is ever handed to an HTTP push.
C14_SyslogOnly ==
    OnlySyslog =>
        /\ \A i \in DOMAIN attempts : attempts[i].cand = "syslog"
        /\ setupPc = "done" =>
              /\ Len(attempts) = 1
              /\ attempts[1].ok => defaultLogger.kind = "syslog"
        /\ \A i \in RecIds :
              /\ records[i].posts = 0
              /\ records[i].remote \notin PushStarted
              /\ (records[i].kind = "syslog" /\ records[i].src = "req"
                    /\ records[i].lvl = LevelWarn) =>
                    /\ records[i].remote \in SyslogSent
                    /\ records[i].sev = LOG_WARNING
                    /\ [grp |-> <<>>, key |-> "order_id", val |-> "42"] \in records[i].rline

\* the warn record with order_id=42 has been sent
C14_Witness ==
    /\ OnlySyslog
    /\ \E i \in RecIds :
          /\ records[i].kind = "syslog"
          /\ records[i].src = "req"
          /\ records[i].lvl = LevelWarn
          /\ OrderId \in records[i].own
          /\ records[i].remote = "sent"
          /\ records[i].sev = LOG_WARNING

LokiPosted == {"inflight", "answered", "failed"}

\* C15 Every record the Loki handler pushes has its own POST: exactly one
\* request was made for it, and that request's payload has exactly one
\* stream, labelled with the handler's label set, holding exactly one values
\* entry, the record's own time and line; so two records with the same
\* labels are two requests.
C15_NoBatching ==
    \A i \in RecIds :
        (records[i].kind = "loki" /\ records[i].remote \in LokiPosted) =>
            /\ records[i].posts = 1
            /\ Len(records[i].streams) = 1
            /\ records[i].streams[1].stream = HandlerOf(records[i].hid).labels
            /\ Len(records[i].streams[1].values) = 1
            /\ records[i].streams[1].values[1] =
                  <<records[i].time, LokiLogEntry(records[i].own)>>

\* two records with identical labels and different times, each with its own
\* request
C15_Witness ==
    \E i, j \in RecIds :
        /\ i # j
        /\ records[i].kind = "loki" /\ records[j].kind = "loki"
        /\ records[i].remote \in LokiPosted /\ records[j].remote \in LokiPosted
        /\ records[i].streams[1].stream = records[j].streams[1].stream
        /\ records[i].time # records[j].time
        /\ records[i].posts = 1 /\ records[j].posts = 1

\* C19 A record whose attribute value cannot be JSON-encoded is still
\* delivered on every leg and Handle returns no error because of the value:
\* once the baseline has taken the line, Handle does not return an error,
\* and the remote leg is neither skipped nor dropped at marshalling.
C19_ValuesCoerced ==
    \A i \in RecIds :
        (~records[i].enc /\ records[i].baseline = "written") =>
            /\ records[i].ret # "err"
            /\ records[i].kind \in PushKinds \cup {"syslog"} =>
                  records[i].remote \notin {"none", "dropped_marshal"}

\* key/value pairs of a line, of a label set, of an attribute list
LinePairs(line) == {[key |-> x.key, val |-> x.val] : x \in line}
AttrPairs(attrs) == {[key |-> attrs[n].key, val |-> attrs[n].val] : n \in DOMAIN attrs}

\* what the WithAttrs and WithGroup calls on the way from the installed
\* handler to handler k added
RECURSIVE ChainPairs(_)
ChainPairs(k) ==
    IF k = 0 THEN {}
    ELSE ChainPairs(handlers[k].parent) \cup AttrPairs(handlers[k].attrs)

RECURSIVE ChainGroup(_)
ChainGroup(k) ==
    IF k = 0 THEN <<>>
    ELSE ChainGroup(handlers[k].parent)
            \o (IF handlers[k].op = "group" THEN <<handlers[k].name>> ELSE <<>>)

IsPrefix(g, full) == Len(g) <= Len(full) /\ \A n \in DOMAIN g : g[n] = full[n]

\* everything a record delivered: pairs of the baseline line, of the remote
\* line, and the labels of its Loki stream
Delivered(i) ==
    LinePairs(records[i].bline) \cup LinePairs(records[i].rline)
        \cup (IF records[i].streams = <<>> THEN {}
              ELSE records[i].streams[1].stream)

\* C11 WithAttrs and WithGroup leave every existing handler as it was and
\* return a further one; a record emitted through a handler, before or after
\* calls made on it, delivers only its own attributes, the configured labels
\* and what the calls leading to that handler added, under no group but the
\* ones opened on the way to it.
C11_ReceiverUnchanged ==
    /\ [][/\ defaultLogger' = defaultLogger
          /\ Len(handlers') >= Len(handlers)
          /\ \A k \in DOMAIN handlers : handlers'[k] = handlers[k]]_vars
    /\ [](\A i \in RecIds :
            /\ Delivered(i) \subseteq
                  LinePairs(FallbackLine(ConsoleHandler, records[i].own))
                      \cup ConfigLabels \cup ChainPairs(records[i].hid)
            /\ \A x \in records[i].bline \cup records[i].rline :
                  IsPrefix(x.grp, ChainGroup(records[i].hid)))

\* a Loki handler got labels through WithAttrs between two records emitted
\* through the original; both were written, and the later one was pushed
\* under the configured labels
C11_Witness ==
    \E n \in DOMAIN handlers, i, j \in RecIds :
        /\ handlers[n].parent = 0 /\ handlers[n].op = "attrs"
        /\ handlers[n].h.labels # defaultLogger.labels
        /\ records[i].hid = 0 /\ records[j].hid = 0
        /\ i <= handlers[n].at /\ handlers[n].at < j
        /\ records[i].baseline = "written" /\ records[j].baseline = "written"
        /\ records[j].remote = "inflight"
        /\ records[j].streams[1].stream = ConfigLabels

RemoteBuilt == SyslogSent \cup LokiPosted

\* the string attributes of a list that no later string attribute of the
\* same key replaces
LastStrings(attrs) ==
    {[key |-> attrs[p].key, val |-> attrs[p].val] :
        p \in {q \in DOMAIN attrs :
                 /\ attrs[q].kind = "string"
                 /\ \A r \in DOMAIN attrs :
                       (r > q /\ attrs[r].kind = "string") =>
                           attrs[r].key # attrs[q].key}}

\* C16 After WithAttrs(attrs) on a Loki handler the new label set is the old
\* one plus exactly the string attributes, a later key replacing an earlier
\* one; every non-string attribute is no label and is in the line of every
\* record pushed through the new handler.
C16_LabelPromotion ==
    \A n \in DOMAIN handlers :
        (handlers[n].op = "attrs" /\ handlers[n].h.kind = "loki") =>
            LET old == HandlerOf(handlers[n].parent).labels
                new == LastStrings(handlers[n].attrs)
                attrs == handlers[n].attrs
            IN /\ handlers[n].h.labels =
                     {l \in old : \A m \in new : m.key # l.key} \cup new
               /\ \A p \in DOMAIN attrs, i \in RecIds :
                     (/\ attrs[p].kind # "string"
                      /\ records[i].hid = n
                      /\ records[i].remote \in LokiPosted) =>
                         /\ \A l \in records[i].streams[1].stream :
                               l.key # attrs[p].key
                         /\ [key |-> attrs[p].key, val |-> attrs[p].val]
                               \in LinePairs(records[i].rline)

\* C17 A record's remote leg carries the attributes its baseline line
\* carries: once both are built, every key/value pair of the baseline line is
\* in the syslog line, the OTLP attributes, or the Loki line or stream labels.
C17_MergedOnEveryLeg ==
    \A i \in RecIds :
        (records[i].baseline = "written" /\ records[i].remote \in RemoteBuilt) =>
            LinePairs(records[i].bline) \subseteq
                LinePairs(records[i].rline)
                    \cup (IF records[i].streams = <<>> THEN {}
                          ELSE records[i].streams[1].stream)

\* C18 After WithGroup(name) the attributes of every record emitted through
\* the new handler are under the group on every leg built for it: in the
\* baseline line and in the syslog line, Loki line or OTLP attributes.
C18_GroupOnEveryLeg ==
    \A i \in RecIds :
        LET g == HandlerOf(records[i].hid).group IN
        g # <<>> =>
            \A a \in records[i].own :
                /\ records[i].baseline = "written" =>
                      [grp |-> g, key |-> a.key, val |-> a.val] \in records[i].bline
                /\ records[i].remote \in RemoteBuilt =>
                      [grp |-> g, key |-> a.key, val |-> a.val] \in records[i].rline

Writing == {c \in Callers : sink.w[c].pc # "idle"}

\* C12 The baseline output is a sequence of complete lines: every line
\* begun is one head piece directly followed by its own tail piece, no piece
\* of another line in between, no line twice; and when no goroutine is
\* writing, the output holds exactly as many lines as were emitted.
C12_WriteAtomicity ==
    /\ \A p \in DOMAIN sink.out :
          /\ p % 2 = 1 => sink.out[p].part = "head"
          /\ p % 2 = 0 => /\ sink.out[p].part = "tail"
                          /\ sink.out[p].id = sink.out[p - 1].id
    /\ \A p, q \in DOMAIN sink.out :
          (p # q /\ sink.out[p].part = sink.out[q].part) =>
              sink.out[p].id # sink.out[q].id
    /\ Writing = {} => Len(sink.out) = 2 * sink.n

\* one line written through the installed handler and one through a handler
\* derived from it are both out, whole
C12_Witness ==
    /\ Len(sink.out) = 4
    /\ sink.out[1].hid # sink.out[3].hid
    /\ sink.out[2].id = sink.out[1].id
    /\ sink.out[4].id = sink.out[3].id
    /\ Writing = {}

\* C20 Every path on which the process stops using a syslog handler has
\* called Close: when main has ended with a syslog handler installed, the
\* handler's connection to the syslog daemon is closed.
C20_ClosedOnExit ==
    (setupPc = "stopped" /\ defaultLogger.kind = "syslog") =>
        defaultLogger.writer = "closed"

SetupPcs == {"otlp", "loki", "syslog", "file"}

\* C21 The default handler is installed at most once: it changes only in a
\* step of the priority chain, away from the handler the process started
\* with, and setupLogging returns in that same step; so no step after the
\* return of setupLogging replaces it.
C21_NoHotSwap ==
    [][defaultLogger' # defaultLogger =>
          /\ defaultLogger = ConsoleHandler
          /\ setupPc \in SetupPcs
          /\ setupPc' = "done"
          /\ \A n \in DOMAIN attempts : ~attempts[n].ok]_vars

\* a handler was installed by the chain and a request has logged through it
C21_Witness ==
    /\ setupPc = "done"
    /\ defaultLogger # ConsoleHandler
    /\ \E n \in DOMAIN attempts : attempts[n].ok
    /\ \E i \in RecIds :
          records[i].src = "req" /\ records[i].kind = defaultLogger.kind

\* the attempt a step of the chain has just made, if any
Attempted == Len(attempts') = Len(attempts) + 1
NewAttempt == attempts'[Len(attempts')]
NewRecords == (Len(records) + 1)..Len(records')

\* C22 When the log directory or file cannot be opened, the file setup
\* reports failure and installs nothing, and the orchestrator logs one
\* warning, written through the console handler, and goes on to the stdout
\* option; setupLogging then ends with the console handler still in place.
C22_FileOpenFailure ==
    /\ [][(Attempted /\ NewAttempt.cand = "file" /\ ~NewAttempt.reach) =>
             /\ ~NewAttempt.ok
             /\ defaultLogger' = defaultLogger
             /\ setupPc' = "stdout"
             /\ Len(records') = Len(records) + 1
             /\ records'[Len(records')].lvl = LevelWarn
             /\ records'[Len(records')].kind = "console"
             /\ records'[Len(records')].baseline = "written"]_vars
    /\ []((/\ setupPc = "done"
           /\ attempts # <<>>
           /\ attempts[Len(attempts)].cand = "file"
           /\ ~attempts[Len(attempts)].reach) => defaultLogger = ConsoleHandler)

\* the file could not be opened; the warning is out and setupLogging has
\* returned with the console handler
C22_Witness ==
    /\ setupPc = "done"
    /\ attempts # <<>>
    /\ attempts[Len(attempts)].cand = "file"
    /\ ~attempts[Len(attempts)].reach
    /\ ~attempts[Len(attempts)].ok
    /\ defaultLogger = ConsoleHandler
    /\ \E i \in RecIds :
          /\ records[i].src = "main"
          /\ records[i].lvl = LevelWarn
          /\ records[i].kind = "console"

\* C28 A candidate whose setup fails leaves the default handler as it was,
\* and the orchestrator's warning goes through that handler; records logged
\* later go through it too until a later candidate succeeds.
C28_FailedSetupFrame ==
    /\ [][(Attempted /\ ~NewAttempt.ok) =>
             /\ defaultLogger' = defaultLogger
             /\ NewRecords # {}
             /\ \A i \in NewRecords :
                   /\ records'[i].kind = defaultLogger.kind
                   /\ records'[i].lvl = LevelWarn]_vars
    /\ [][(defaultLogger' = defaultLogger) =>
             \A i \in NewRecords : records'[i].kind = defaultLogger.kind]_vars

\* syslog setup failed, nothing else was installed, and a request has logged
\* through the handler the process started with
C28_Witness ==
    /\ setupPc = "done"
    /\ \E n \in DOMAIN attempts : attempts[n].cand = "syslog" /\ ~attempts[n].ok
    /\ \A n \in DOMAIN attempts : ~attempts[n].ok
    /\ defaultLogger = ConsoleHandler
    /\ \E i \in RecIds : records[i].src = "req" /\ records[i].kind = "console"

RemoteKinds == {"syslog", "loki", "otlp"}

\* C27 In the syslog, Loki and OTLP handlers a record's remote leg starts
\* only once its baseline write has succeeded; when the baseline write
\* fails, Handle returns the error, and no remote leg is started for the
\* record then or at any later time.
C27_BaselineBeforeRemote ==
    /\ [](\A i \in RecIds :
            records[i].kind \in RemoteKinds =>
                /\ records[i].baseline = "failed" =>
                      /\ records[i].ret = "err"
                      /\ records[i].remote = "none"
                      /\ records[i].posts = 0
                /\ (records[i].remote # "none" \/ records[i].posts > 0) =>
                      records[i].baseline = "written")
    /\ [][\A i \in RecIds :
            records[i].baseline = "failed" => records'[i] = records[i]]_vars

\* stdout refused a record of a handler that had delivered an earlier one
\* remotely
C27_Witness ==
    \E i, j \in RecIds :
        /\ i < j
        /\ records[i].kind \in RemoteKinds
        /\ records[i].baseline = "written"
        /\ records[i].remote \in {"sent", "answered"}
        /\ records[j].baseline = "failed"
        /\ records[j].ret = "err"
        /\ records[j].remote = "none"

\* the dispatch goroutines that have been started and have not finished
InFlight == {i \in RecIds : records[i].remote \in {"spawned", "inflight"}}

\* C24 Nothing limits the number of dispatch goroutines of a push handler:
\* however many are under way, a caller can emit a further record, every
\* record written to the baseline starts a goroutine of its own beside the
\* ones under way, and a goroutine ends only by its own request ending
\* (dropped, answered, or failed, the client's timeout included).
C24_UnboundedDispatch ==
    /\ []((/\ defaultLogger.kind \in PushKinds
           /\ Cardinality(CallerRecords) < MaxEmits) =>
              \A c \in Callers : ENABLED LogAny(c))
    /\ [][/\ \A i \in NewRecords :
                (records'[i].kind \in PushKinds /\ records'[i].baseline = "written") =>
                    /\ records'[i].remote = "spawned"
                    /\ InFlight' = InFlight \cup {i}
          /\ \A i \in InFlight :
                i \notin InFlight' =>
                    records'[i].remote \in {"dropped_marshal", "dropped_request",
                                            "answered", "failed"}]_vars

\* as many requests are in flight at once as records were emitted
C24_Witness ==
    /\ defaultLogger.kind \in PushKinds
    /\ Cardinality({i \in RecIds : records[i].remote = "inflight"}) = MaxEmits

\* C25 Baseline lines are in the order in which their emitters took the
\* write lock (a line's id is its place in that order); between the
\* dispatches of two records there is no order: every started dispatch can
\* send its request next, whatever the state of the others.
C25_Ordering ==
    /\ \A p, q \in DOMAIN sink.out : p < q => sink.out[p].id <= sink.out[q].id
    /\ \A i \in RecIds :
          records[i].remote = "spawned" =>
              /\ records[i].kind = "loki" => ENABLED sendToLoki(i)
              /\ records[i].kind = "otlp" => ENABLED sendToOTLP(i)

\* two records whose lines are on the baseline in lock order, the later
\* one's request sent while the earlier one's dispatch has not sent its own
C25_Witness ==
    /\ Len(sink.out) = 4
    /\ sink.out[1].id = 1 /\ sink.out[3].id = 2
    /\ \E i, j \in RecIds :
          /\ records[i].time = 1 /\ records[j].time = 2
          /\ records[i].remote = "spawned"
          /\ records[j].remote \in LokiPosted

\* C23 The file baseline rotates at the size limit: no file it writes
\* grows beyond MaxSizeMB, a fresh file being opened when the limit is
\* reached, and the lines of all files together are the records written, in
\* order.
C23_Rotation ==
    /\ \A k \in DOMAIN LogFiles : Len(LogFiles[k]) * LineMB <= MaxSizeMB
    /\ \A k \in DOMAIN LogFiles :
          \A p, q \in DOMAIN LogFiles[k] :
              p < q => LogFiles[k][p].time < LogFiles[k][q].time

Resps == DOMAIN svc.resps

\* C26 GET /healthz is answered 200 whatever the database's state; GET
\* /readyz is answered 200 "ready" exactly when its database ping succeeded,
\* which it does exactly when the database answers, and 503 "not ready"
\* otherwise.
C26_HealthEndpoints ==
    \A n \in Resps :
        LET r == svc.resps[n] IN
        /\ r.path = "/healthz" => r.code = StatusOK
        /\ r.path = "/readyz" =>
              /\ r.ping = "ok" <=> r.dbUp
              /\ r.ping = "ok" => (r.code = StatusOK /\ r.status = "ready")
              /\ r.ping # "ok" =>
                    (r.code = StatusServiceUnavailable /\ r.status = "not ready")

\* with the database away, /healthz was answered 200 and /readyz 503
C26_Witness ==
    /\ \E n \in Resps :
          /\ svc.resps[n].path = "/healthz"
          /\ ~svc.resps[n].dbUp
          /\ svc.resps[n].code = StatusOK
    /\ \E n \in Resps :
          /\ svc.resps[n].path = "/readyz"
          /\ ~svc.resps[n].dbUp
          /\ svc.resps[n].code = StatusServiceUnavailable

\* C29 After n successful CreateWarehouse requests, starting from 0, the
\* active-warehouse gauge is n.
C29_GaugeCountsCreates == svc.gauge = svc.created

\* C30 The connect loop makes at most attemptThreshold attempts and has
\* slept 1, 2, 4, 8 seconds after the failed ones before the last; a turn
\* whose attempt succeeds leads to the server, and no other turn does; the
\* server never runs without a connection; the process exits with status 1
\* exactly after the failure of the last attempt; and the loop always ends.
C30_ConnectLoop ==
    /\ [](/\ svc.attempt \in 1..attemptThreshold
          /\ svc.slept = SubSeq(<<1, 2, 4, 8>>, 1, svc.attempt - 1)
          /\ svc.pc = "connect" => (svc.conn = "nil" /\ svc.exit = NoExit)
          /\ svc.pc = "serving" => (svc.conn = "open" /\ svc.exit = NoExit)
          /\ svc.pc = "exited" =>
                /\ svc.exit = 1
                /\ svc.conn = "nil"
                /\ svc.attempt = attemptThreshold)
    /\ [][(svc.pc = "connect" /\ svc'.dbUp = svc.dbUp /\ svc' # svc) =>
             IF svc.dbUp THEN svc'.pc = "serving" ELSE svc'.pc # "serving"]_vars
    /\ <>(svc.pc \in {"serving", "exited"})

\* five attempts failed: four sleeps made, the process has exited
C30_Witness ==
    /\ svc.pc = "exited"
    /\ svc.exit = 1
    /\ svc.slept = <<1, 2, 4, 8>>

====
